---- MODULE Spec2Model ----
(***************************************************************************)
(* git-wt: one run of the command-line tool (src/src/main.rs).             *)
(*                                                                         *)
(* A run is the execution of one subcommand.  Every interaction with the   *)
(* outside (a git child process, a prompt, the filesystem) is one step     *)
(* whose outcome is chosen by the environment.  The state records the      *)
(* position of the run (pc), the handler's locals, everything the tool     *)
(* wrote itself to standard output, the notes and errors it logged, and    *)
(* the ordered trace of the external interactions (log).                   *)
(***************************************************************************)
EXTENDS Naturals, Sequences, FiniteSets

VARIABLES
    cmd,            \* Commands variant being run
    branchArg,      \* Option<String>: the branch argument (<<>> = None)
    fromArg,        \* Option<String>: add --from
    force,          \* rm --force
    shellArg,       \* Option<Shell>: init
    inRepo,         \* environment: git reports a metadata directory
    repoWorktrees,  \* environment: what `git worktree list` parses to
    cwd,            \* environment: the process's current directory
    pc,             \* position of the run
    branch,         \* local `branch` of the handler
    worktrees,      \* local `worktrees` of find_worktree_path
    options,        \* local `options` of find_worktree_path (sorted candidates)
    found,          \* Option<String>: result of find_worktree_path
    branch_exists,  \* add_worktree local
    base_ref_exists,\* add_worktree local
    disk,           \* what clone has created on disk so far
    log,            \* trace of external interactions, in order
    stdout,         \* lines the tool itself wrote to standard output
    stderr,         \* log_info / log_error / eprintln lines
    exitCode,       \* process exit code once pc = "exit"
    failure         \* outcome of the run once pc = "exit"

vars == <<cmd, branchArg, fromArg, force, shellArg, inRepo, repoWorktrees, cwd,
          pc, branch, worktrees, options, found, branch_exists, base_ref_exists,
          disk, log, stdout, stderr, exitCode, failure>>

args == <<cmd, branchArg, fromArg, force, shellArg>>
env == <<inRepo, repoWorktrees, cwd>>
findLocals == <<worktrees, options, found>>
addLocals == <<branch_exists, base_ref_exists>>

-----------------------------------------------------------------------------
(* Bounds of the model *)

\* longest inventory `git worktree list` reports
MaxWorktrees == 3
\* largest fuzzy score (the code's scores are u16)
MaxScore == 2

-----------------------------------------------------------------------------
(* Option<T> as a sequence of length at most one *)

None == <<>>
Some(x) == <<x>>
IsSome(o) == o # <<>>
Unwrap(o) == o[1]

-----------------------------------------------------------------------------
(* The environment's values *)

Commands == {"init", "clone", "fetch", "add", "rm", "switch", "pull", "help"}

\* a (branch, path) pair of get_all_worktrees
Rec(b, p) == [branch |-> b, path |-> p]

\* the records an inventory is drawn from: two records share a branch, two
\* share a canonical directory, one path no longer exists, one is nested
Records ==
    { Rec("main", "/r/main"),
      Rec("feat", "/r/feat"),
      Rec("fix",  "/lnk"),
      Rec("feat", "/gone"),
      Rec("fix",  "/r/feat/sub") }

RECURSIVE SeqsUpTo(_, _)
SeqsUpTo(S, n) ==
    IF n = 0 THEN { <<>> }
    ELSE LET shorter == SeqsUpTo(S, n - 1)
         IN  shorter \cup { Append(s, x) : s \in shorter, x \in S }

Inventories == SeqsUpTo(Records, MaxWorktrees)

Tokens == {"feat", "f"}
Refs == {"v1"}
Shells == {"fish", "bash", "zsh"}
Dirs == {"/r", "/r/feat", "/r/feat/sub", "/lnk", "/gone"}

\* the filesystem: components of each canonical directory
Components(p) ==
    CASE p = "/r"          -> <<"r">>
      [] p = "/r/main"     -> <<"r", "main">>
      [] p = "/r/feat"     -> <<"r", "feat">>
      [] p = "/r/feat/sub" -> <<"r", "feat", "sub">>
      [] OTHER             -> <<>>

\* Path::canonicalize: resolves symbolic links, fails on a missing path
Canonicalize(p) ==
    CASE p = "/lnk"  -> Some("/r/feat")
      [] p = "/gone" -> None
      [] OTHER       -> Some(p)

IsPrefix(s, t) == Len(s) <= Len(t) /\ SubSeq(t, 1, Len(s)) = s

-----------------------------------------------------------------------------
(* Trace of external interactions *)

\* a child process `git argv`, run in directory dir ("" = inherited), with
\* its outcome: "ok" (exit status 0), "fail" (non-zero), "spawn" (not started)
GitEv(argv, dir, res) ==
    [kind |-> "git", argv |-> argv, cwd |-> dir, res |-> res, val |-> ""]

\* a filesystem call of the tool itself
FsEv(argv, res) ==
    [kind |-> "fs", argv |-> argv, cwd |-> "", res |-> res, val |-> ""]

\* the fuzzy matcher scoring the inventory against a token
ScoreEv(token) ==
    [kind |-> "score", argv |-> <<token>>, cwd |-> "", res |-> "ok", val |-> ""]

\* a prompt: res is "answered", "skipped" (Ok(None)) or "error" (Err)
PromptEv(kind, labels, res, val) ==
    [kind |-> kind, argv |-> labels, cwd |-> "", res |-> res, val |-> val]

\* outcomes of a git child process
GitOutcomes == {"ok", "fail", "spawn"}

\* `git rev-parse --git-dir` succeeds exactly inside a repository
RepoProbeOutcomes == IF inRepo THEN {"ok", "spawn"} ELSE {"fail", "spawn"}

\* any other git command needs a repository to succeed
RepoOutcomes == IF inRepo THEN GitOutcomes ELSE {"fail", "spawn"}

-----------------------------------------------------------------------------
(* Leaving the process *)

\* process::exit(code), or main returning
Exit(code, kind) ==
    /\ pc' = "exit"
    /\ exitCode' = Some(code)
    /\ failure' = kind

\* the handler returns Ok(()) and main returns Ok(())
ReturnOk == Exit(0, "none")

\* the handler returns Err(e): main returns it and the process exits with 1
ReturnErr == Exit(1, "Error")

\* a bug: the child's own exit status is passed on
RunCommandPassesStatus(argv, dir, res, pre, post, cont) ==
    /\ log' = Append(log, GitEv(argv, dir, res))
    /\ CASE res = "spawn" ->
              /\ stderr' = stderr \o pre \o <<"Error: Failed to execute command: git">>
              /\ ReturnErr
         [] res = "fail" ->
              /\ stderr' = stderr \o pre \o <<" ERROR  Command failed">>
              /\ Exit(128, "CommandFailed")
         [] OTHER ->
              /\ stderr' = stderr \o pre \o post
              /\ cont

\* run_command: spawn, wait, exit(1) on a non-zero status.  pre is what the
\* caller logged before the call, post what it logs after a success, and
\* cont is the caller's continuation
RunCommand(argv, dir, res, pre, post, cont) ==
    /\ log' = Append(log, GitEv(argv, dir, res))
    /\ CASE res = "spawn" ->
              /\ stderr' = stderr \o pre \o <<"Error: Failed to execute command: git">>
              /\ ReturnErr
         [] res = "fail" ->
              /\ stderr' = stderr \o pre \o <<" ERROR  Command failed">>
              /\ Exit(1, "CommandFailed")
         [] OTHER ->
              /\ stderr' = stderr \o pre \o post
              /\ cont

-----------------------------------------------------------------------------
(* main *)

\* the handler main dispatches to, as the first position of the run
Entry(c) ==
    CASE c = "init"   -> "init"
      [] c = "clone"  -> "clone_mkdir"
      [] c = "fetch"  -> "fetch"
      [] c = "help"   -> "help"
      [] OTHER        -> "check_git_repo"

Option(S) == { None } \cup { Some(x) : x \in S }

Init ==
    /\ cmd \in Commands
    /\ branchArg \in
         CASE cmd \in {"add", "switch"} -> { Some(t) : t \in Tokens }
           [] cmd \in {"rm", "pull"}    -> Option(Tokens)
           [] OTHER                     -> { None }
    /\ fromArg \in (IF cmd = "add" THEN Option(Refs) ELSE { None })
    /\ force \in (IF cmd = "rm" THEN BOOLEAN ELSE { FALSE })
    /\ shellArg \in (IF cmd = "init" THEN Option(Shells) ELSE { None })
    /\ inRepo \in (IF cmd \in {"fetch", "add", "rm", "switch", "pull"}
                   THEN BOOLEAN ELSE { FALSE })
    /\ repoWorktrees \in (IF inRepo /\ cmd \in {"rm", "switch", "pull"}
                          THEN Inventories ELSE { <<>> })
    /\ cwd \in (IF cmd \in {"rm", "pull"} /\ branchArg = None
                THEN Dirs ELSE { "/r" })
    /\ pc = Entry(cmd)
    /\ branch = ""
    /\ worktrees = <<>>
    /\ options = <<>>
    /\ found = None
    /\ branch_exists = FALSE
    /\ base_ref_exists = FALSE
    /\ disk = {}
    /\ log = <<>>
    /\ stdout = <<>>
    /\ stderr = <<>>
    /\ exitCode = None
    /\ failure = "running"

\* main with no subcommand and no branch: print the help, exit(1)
PrintHelp ==
    /\ pc = "help"
    /\ stdout' = Append(stdout, "<help>")
    /\ Exit(1, "Usage")
    /\ UNCHANGED <<args, env, branch, findLocals, addLocals, disk, log, stderr>>

\* init_shell_integration
InitShellIntegration ==
    /\ pc = "init"
    /\ IF shellArg = None
       THEN /\ stderr' = stderr \o <<"Usage: git-wt init <shell> | source">>
            /\ Exit(1, "Usage")
            /\ UNCHANGED stdout
       ELSE \E w \in {"ok", "error"} :
              IF w = "ok"
              THEN /\ stdout' = Append(stdout,
                         IF Unwrap(shellArg) = "fish" THEN "<fish.fish>" ELSE "<bash.sh>")
                   /\ ReturnOk
                   /\ UNCHANGED stderr
              ELSE /\ ReturnErr
                   /\ UNCHANGED <<stdout, stderr>>
    /\ UNCHANGED <<args, env, branch, findLocals, addLocals, disk, log>>

\* check_git_repo, and the first lines of the handler that called it
CheckGitRepo ==
    /\ pc = "check_git_repo"
    /\ \E r \in RepoProbeOutcomes :
         /\ log' = Append(log, GitEv(<<"rev-parse", "--git-dir">>, "", r))
         /\ CASE r = "spawn" ->
                   /\ stderr' = Append(stderr, "Error: Failed to execute git rev-parse")
                   /\ ReturnErr
                   /\ UNCHANGED branch
              [] r = "fail" ->
                   /\ stderr' = Append(stderr, " ERROR  Not in a git repository")
                   /\ Exit(1, "NotInRepository")
                   /\ UNCHANGED branch
              [] OTHER ->
                   /\ UNCHANGED <<stderr, exitCode, failure>>
                   /\ CASE cmd = "add" ->
                             /\ pc' = "get_root"
                             /\ branch' = Unwrap(branchArg)
                        [] cmd \in {"rm", "pull"} /\ branchArg = None ->
                             /\ pc' = "current_branch"
                             /\ UNCHANGED branch
                        [] OTHER ->
                             /\ pc' = "find"
                             /\ branch' = Unwrap(branchArg)
    /\ UNCHANGED <<args, env, findLocals, addLocals, disk, stdout>>

\* fetch_with_prune
FetchWithPrune ==
    /\ pc = "fetch"
    /\ \E r \in RepoOutcomes :
         RunCommand(<<"fetch", "origin", "--prune">>, "", r,
                    <<"Fetching from origin with prune...">>,
                    <<"Fetch completed.">>, ReturnOk)
    /\ UNCHANGED <<args, env, branch, findLocals, addLocals, disk, stdout>>

-----------------------------------------------------------------------------
(* add *)

\* the directory the worktrees are siblings in (parent of the common dir)
WorktreeRoot == "/r"

\* root.join(branch)
WorktreePath(b) == WorktreeRoot \o "/" \o b

\* from.unwrap_or(&default_ref), default_ref = origin/<branch>
BaseRef(b, from) == IF IsSome(from) THEN Unwrap(from) ELSE "origin/" \o b

\* get_worktree_root, called by add_worktree
GetWorktreeRoot ==
    /\ pc = "get_root"
    /\ \E r \in RepoOutcomes \cup {"noparent"} :
         /\ log' = Append(log, GitEv(<<"rev-parse", "--git-common-dir">>, "",
                                     IF r = "noparent" THEN "ok" ELSE r))
         /\ CASE r = "spawn" ->
                   /\ stderr' = Append(stderr, "Error: Failed to execute git rev-parse")
                   /\ ReturnErr
              [] r = "fail" ->
                   /\ stderr' = Append(stderr, " ERROR  Not in a git repository")
                   /\ Exit(1, "NotInRepository")
              [] r = "noparent" ->
                   /\ stderr' = Append(stderr, "Error: Could not determine worktree root")
                   /\ ReturnErr
              [] OTHER ->
                   /\ pc' = "path_check"
                   /\ UNCHANGED <<stderr, exitCode, failure>>
    /\ UNCHANGED <<args, env, branch, findLocals, addLocals, disk, stdout>>

\* add_worktree: "Check if worktree already exists"
AddPathCheck ==
    /\ pc = "path_check"
    /\ \E exists \in BOOLEAN :
         /\ log' = Append(log, FsEv(<<"exists", WorktreePath(branch)>>,
                                    IF exists THEN "yes" ELSE "no"))
         /\ IF exists
            THEN /\ stderr' = Append(stderr,
                       " ERROR  Directory '" \o WorktreePath(branch) \o "' already exists")
                 /\ Exit(1, "PathExists")
            ELSE /\ pc' = "probe_branch"
                 /\ UNCHANGED <<stderr, exitCode, failure>>
    /\ UNCHANGED <<args, env, branch, findLocals, addLocals, disk, stdout>>

\* add_worktree: "Check if branch exists locally"; a probe that cannot be
\* spawned counts as "does not exist"
AddProbeBranch ==
    /\ pc = "probe_branch"
    /\ \E r \in GitOutcomes :
         /\ log' = Append(log,
                GitEv(<<"rev-parse", "--verify", "refs/heads/" \o branch>>, "", r))
         /\ branch_exists' = (r = "ok")
    /\ pc' = "probe_base"
    /\ UNCHANGED <<args, env, branch, findLocals, base_ref_exists, disk, stdout,
                   stderr, exitCode, failure>>

\* add_worktree: "Check if the base ref exists"
AddProbeBaseRef ==
    /\ pc = "probe_base"
    /\ \E r \in GitOutcomes :
         /\ log' = Append(log,
                GitEv(<<"rev-parse", "--verify", BaseRef(branch, fromArg)>>, "", r))
         /\ base_ref_exists' = (r = "ok")
    /\ pc' = "create"
    /\ UNCHANGED <<args, env, branch, findLocals, branch_exists, disk, stdout,
                   stderr, exitCode, failure>>

\* a bug: the base ref is tried before the local branch
AddArgvBaseFirst(path, b, base_ref, be, bre) ==
    IF bre THEN <<"worktree", "add", path, "-b", b, base_ref>>
    ELSE IF be THEN <<"worktree", "add", path, b>>
    ELSE <<"worktree", "add", path, "-b", b, "HEAD">>

\* the arguments of the one `git worktree add` the fallback chain picks
AddArgv(path, b, base_ref, be, bre) ==
    IF be THEN <<"worktree", "add", path, b>>
    ELSE IF bre THEN <<"worktree", "add", path, "-b", b, base_ref>>
    ELSE <<"worktree", "add", path, "-b", b, "HEAD">>

\* what the fallback chain logs before the command
AddNote(base_ref, be, bre) ==
    IF ~be /\ ~bre
    THEN <<"Note: " \o base_ref \o " doesn't exist, creating from HEAD">>
    ELSE <<>>

\* add_worktree: create the worktree
AddCreate ==
    /\ pc = "create"
    /\ \E r \in GitOutcomes :
         RunCommand(AddArgv(WorktreePath(branch), branch, BaseRef(branch, fromArg),
                            branch_exists, base_ref_exists),
                    "", r,
                    <<"Creating worktree '" \o branch \o "'...">>
                       \o AddNote(BaseRef(branch, fromArg), branch_exists, base_ref_exists),
                    <<"Worktree created.">>, ReturnOk)
    /\ UNCHANGED <<args, env, branch, findLocals, addLocals, disk, stdout>>

-----------------------------------------------------------------------------
(* Worktree inventory and branch resolution *)

\* outcomes of `git worktree list --porcelain`
ListOutcomes == GitOutcomes

\* get_all_worktrees: the parsed records; empty when git reports failure
GetAllWorktrees(r) == IF r = "ok" THEN repoWorktrees ELSE <<>>

\* a bug: the scan keeps the last record of the branch, not the first
ExactMatchLast(wts, b) ==
    IF \E i \in 1..Len(wts) : wts[i].branch = b
    THEN LET i == CHOOSE j \in 1..Len(wts) :
                    /\ wts[j].branch = b
                    /\ \A k \in (j + 1)..Len(wts) : wts[k].branch # b
         IN  Some(wts[i].path)
    ELSE None

\* find_worktree_path: "First try exact match", in inventory order
ExactMatch(wts, b) ==
    IF \E i \in 1..Len(wts) : wts[i].branch = b
    THEN LET i == CHOOSE j \in 1..Len(wts) :
                    /\ wts[j].branch = b
                    /\ \A k \in 1..(j - 1) : wts[k].branch # b
         IN  Some(wts[i].path)
    ELSE None

\* scores the matcher can give a branch name: None, or Some(1..MaxScore)
Scores == Option(1..MaxScore)

BranchesOf(wts) == { wts[i].branch : i \in 1..Len(wts) }

\* the `scored` vector: the records the pattern matches, in inventory order
RECURSIVE Scored(_, _)
Scored(wts, sc) ==
    IF wts = <<>> THEN <<>>
    ELSE LET w == wts[1]
             rest == Scored(Tail(wts), sc)
         IN  IF IsSome(sc[w.branch])
             THEN <<[score |-> Unwrap(sc[w.branch]), branch |-> w.branch,
                     path |-> w.path]>> \o rest
             ELSE rest

\* a bug: x goes before its equals, which reverses ties
InsertDescBeforeEquals(sorted, x) ==
    LET k == Cardinality({ i \in 1..Len(sorted) : sorted[i].score > x.score })
    IN  SubSeq(sorted, 1, k) \o <<x>> \o SubSeq(sorted, k + 1, Len(sorted))

\* insert x into a vector sorted by descending score, after its equals
InsertDesc(sorted, x) ==
    LET k == Cardinality({ i \in 1..Len(sorted) : sorted[i].score >= x.score })
    IN  SubSeq(sorted, 1, k) \o <<x>> \o SubSeq(sorted, k + 1, Len(sorted))

\* scored.sort_by(|a, b| b.0.cmp(&a.0)): a stable sort, descending score
RECURSIVE SortByScoreDesc(_)
SortByScoreDesc(s) ==
    IF s = <<>> THEN <<>>
    ELSE InsertDesc(SortByScoreDesc(SubSeq(s, 1, Len(s) - 1)), s[Len(s)])

\* the labels shown by the select prompt
BranchNames(opts) == [i \in 1..Len(opts) |-> opts[i].branch]

\* find_worktree_path: the path of the option the selected label names
PathOfSelected(opts, selected) ==
    IF \E i \in 1..Len(opts) : opts[i].branch = selected
    THEN LET i == CHOOSE j \in 1..Len(opts) :
                    /\ opts[j].branch = selected
                    /\ \A k \in 1..(j - 1) : opts[k].branch # selected
         IN  Some(opts[i].path)
    ELSE None

\* find_worktree_path: query the inventory, then the exact pass
FindWorktreePath ==
    /\ pc = "find"
    /\ \E r \in ListOutcomes :
         /\ log' = Append(log, GitEv(<<"worktree", "list", "--porcelain">>, "", r))
         /\ IF r = "spawn"
            THEN /\ stderr' = Append(stderr, "Error: Failed to execute git worktree list")
                 /\ ReturnErr
                 /\ UNCHANGED <<worktrees, found>>
            ELSE LET wts == GetAllWorktrees(r)
                     exact == ExactMatch(wts, branch)
                 IN  /\ UNCHANGED <<stderr, exitCode, failure>>
                     /\ IF wts = <<>>
                        THEN found' = None /\ pc' = "found" /\ UNCHANGED worktrees
                        ELSE IF IsSome(exact)
                        THEN found' = exact /\ pc' = "found" /\ UNCHANGED worktrees
                        ELSE worktrees' = wts /\ pc' = "fuzzy" /\ UNCHANGED found
    /\ UNCHANGED <<args, env, branch, options, addLocals, disk, stdout>>

\* find_worktree_path: the fuzzy pass and the sort
FuzzyPass ==
    /\ pc = "fuzzy"
    /\ \E sc \in [BranchesOf(worktrees) -> Scores] :
         LET sorted == SortByScoreDesc(Scored(worktrees, sc))
         IN  /\ log' = Append(log, ScoreEv(branch))
             /\ IF sorted = <<>>
                THEN found' = None /\ pc' = "found" /\ UNCHANGED <<options, stderr>>
                ELSE IF Len(sorted) = 1
                THEN /\ found' = Some(sorted[1].path)
                     /\ pc' = "found"
                     /\ UNCHANGED <<options, stderr>>
                ELSE /\ options' = sorted
                     /\ stderr' = Append(stderr,
                            "'" \o branch \o "' matches multiple worktrees.")
                     /\ pc' = "select"
                     /\ UNCHANGED found
    /\ UNCHANGED <<args, env, branch, worktrees, addLocals, disk, stdout,
                   exitCode, failure>>

\* find_worktree_path: the select prompt and its answer
SelectPrompt ==
    /\ pc = "select"
    /\ \/ \E i \in 1..Len(options) :
            LET selected == options[i].branch
            IN  /\ log' = Append(log,
                       PromptEv("select", BranchNames(options), "answered", selected))
                /\ found' = PathOfSelected(options, selected)
                /\ pc' = "found"
                /\ UNCHANGED <<stderr, exitCode, failure>>
       \/ \E r \in {"skipped", "error"} :
            /\ log' = Append(log, PromptEv("select", BranchNames(options), r, ""))
            /\ stderr' = Append(stderr, "Cancelled.")
            /\ Exit(0, "Cancelled")
            /\ UNCHANGED found
    /\ UNCHANGED <<args, env, branch, worktrees, options, addLocals, disk, stdout>>

\* a bug: a record matches when the current directory is inside its path
CurrentBranchByPrefix(wts, current_dir) ==
    LET inside(j) ==
          /\ IsSome(Canonicalize(wts[j].path))
          /\ IsPrefix(Components(Unwrap(Canonicalize(wts[j].path))),
                      Components(current_dir))
    IN  IF \E i \in 1..Len(wts) : inside(i)
        THEN LET i == CHOOSE j \in 1..Len(wts) :
                        inside(j) /\ \A k \in 1..(j - 1) : ~inside(k)
             IN  Some(wts[i].branch)
        ELSE None

\* get_current_worktree_branch: the branch of the first record whose
\* canonical path is the canonical current directory
CurrentBranch(wts, current_dir) ==
    IF \E i \in 1..Len(wts) : Canonicalize(wts[i].path) = Some(current_dir)
    THEN LET i == CHOOSE j \in 1..Len(wts) :
                    /\ Canonicalize(wts[j].path) = Some(current_dir)
                    /\ \A k \in 1..(j - 1) : Canonicalize(wts[k].path) # Some(current_dir)
         IN  Some(wts[i].branch)
    ELSE None

\* rm / pull without a branch: get_current_worktree_branch, and the caller's
\* exit when it returns None
GetCurrentWorktreeBranch ==
    /\ pc = "current_branch"
    /\ IF Canonicalize(cwd) = None
       THEN /\ log' = Append(log, FsEv(<<"canonicalize", cwd>>, "error"))
            /\ ReturnErr
            /\ UNCHANGED <<stderr, branch>>
       ELSE \E r \in ListOutcomes :
              /\ log' = log \o <<FsEv(<<"canonicalize", cwd>>, "ok"),
                                 GitEv(<<"worktree", "list", "--porcelain">>, "", r)>>
              /\ IF r = "spawn"
                 THEN /\ stderr' = Append(stderr,
                            "Error: Failed to execute git worktree list")
                      /\ ReturnErr
                      /\ UNCHANGED branch
                 ELSE LET b == CurrentBranch(GetAllWorktrees(r),
                                             Unwrap(Canonicalize(cwd)))
                      IN  IF IsSome(b)
                          THEN /\ branch' = Unwrap(b)
                               /\ pc' = "find"
                               /\ UNCHANGED <<stderr, exitCode, failure>>
                          ELSE /\ stderr' = Append(stderr,
                                     " ERROR  Could not determine current worktree branch")
                               /\ Exit(1, "NoCurrentBranch")
                               /\ UNCHANGED branch
    /\ UNCHANGED <<args, env, findLocals, addLocals, disk, stdout>>

-----------------------------------------------------------------------------
(* switch, rm, pull *)

\* a bug: the line is printed without the CD: marker
CdLineBare(path) == path

\* println!("CD:{path}")
CdLine(path) == "CD:" \o path

\* switch_to_worktree, after find_worktree_path returned
SwitchToWorktree ==
    /\ pc = "found"
    /\ cmd = "switch"
    /\ IF IsSome(found)
       THEN /\ stdout' = Append(stdout, CdLine(Unwrap(found)))
            /\ ReturnOk
            /\ UNCHANGED stderr
       ELSE /\ stderr' = Append(stderr,
                  " ERROR  Worktree for branch '" \o branch \o "' not found.")
            /\ Exit(1, "ResolveNotFound")
            /\ UNCHANGED stdout
    /\ UNCHANGED <<args, env, branch, findLocals, addLocals, disk, log>>

\* what the confirm prompt can return
ConfirmAnswers ==
    { [res |-> "answered", val |-> "yes"], [res |-> "answered", val |-> "no"],
      [res |-> "skipped", val |-> ""], [res |-> "error", val |-> ""] }

\* matches!(confirmed, Ok(Some(true)))
Confirmed(a) == a.res = "answered" /\ a.val = "yes"

\* the arguments of `git worktree remove`
RemoveArgv(f, path) ==
    IF f THEN <<"worktree", "remove", "--force", path>>
    ELSE <<"worktree", "remove", path>>

\* a bug: --force also skips the confirmation prompt
RemoveConfirmForceSkipsPrompt ==
    /\ pc = "found"
    /\ cmd = "rm"
    /\ IF found = None
       THEN /\ stderr' = Append(stderr,
                  " ERROR  Worktree for branch '" \o branch \o "' not found")
            /\ Exit(1, "ResolveNotFound")
            /\ UNCHANGED log
       ELSE IF force
       THEN /\ pc' = "remove"
            /\ UNCHANGED <<log, stderr, exitCode, failure>>
       ELSE \E a \in ConfirmAnswers :
              /\ log' = Append(log, PromptEv("confirm", <<>>, a.res, a.val))
              /\ UNCHANGED stderr
              /\ IF Confirmed(a)
                 THEN pc' = "remove" /\ UNCHANGED <<exitCode, failure>>
                 ELSE Exit(0, "Cancelled")
    /\ UNCHANGED <<args, env, branch, findLocals, addLocals, disk, stdout>>

\* remove_worktree, after find_worktree_path returned: the not-found exit,
\* then the confirmation prompt
RemoveConfirm ==
    /\ pc = "found"
    /\ cmd = "rm"
    /\ IF found = None
       THEN /\ stderr' = Append(stderr,
                  " ERROR  Worktree for branch '" \o branch \o "' not found")
            /\ Exit(1, "ResolveNotFound")
            /\ UNCHANGED log
       ELSE \E a \in ConfirmAnswers :
              /\ log' = Append(log, PromptEv("confirm", <<>>, a.res, a.val))
              /\ UNCHANGED stderr
              /\ IF Confirmed(a)
                 THEN pc' = "remove" /\ UNCHANGED <<exitCode, failure>>
                 ELSE Exit(0, "Cancelled")
    /\ UNCHANGED <<args, env, branch, findLocals, addLocals, disk, stdout>>

\* remove_worktree: the removal
RemoveWorktree ==
    /\ pc = "remove"
    /\ \E r \in GitOutcomes :
         RunCommand(RemoveArgv(force, Unwrap(found)), "", r, <<>>,
                    <<"Worktree '" \o branch \o "' removed.">>, ReturnOk)
    /\ UNCHANGED <<args, env, branch, findLocals, addLocals, disk, stdout>>

\* a bug: the pull runs before the not-found check, in the current directory
\* when nothing was resolved
PullWorktreeBeforeCheck ==
    /\ pc = "found"
    /\ cmd = "pull"
    /\ \E r \in GitOutcomes :
         RunCommand(<<"pull">>, IF found = None THEN "" ELSE Unwrap(found), r,
                    <<"Pulling changes in worktree '" \o branch \o "'...">>,
                    IF found = None
                    THEN <<" ERROR  Worktree for branch '" \o branch \o "' not found">>
                    ELSE <<"Pull completed.">>,
                    IF found = None THEN Exit(1, "ResolveNotFound") ELSE ReturnOk)
    /\ UNCHANGED <<args, env, branch, findLocals, addLocals, disk, stdout>>

\* pull_worktree, after find_worktree_path returned
PullWorktree ==
    /\ pc = "found"
    /\ cmd = "pull"
    /\ IF found = None
       THEN /\ stderr' = Append(stderr,
                  " ERROR  Worktree for branch '" \o branch \o "' not found")
            /\ Exit(1, "ResolveNotFound")
            /\ UNCHANGED log
       ELSE \E r \in GitOutcomes :
              RunCommand(<<"pull">>, Unwrap(found), r,
                         <<"Pulling changes in worktree '" \o branch \o "'...">>,
                         <<"Pull completed.">>, ReturnOk)
    /\ UNCHANGED <<args, env, branch, findLocals, addLocals, disk, stdout>>

-----------------------------------------------------------------------------
(* clone *)

\* dir_name: the name argument, or the URL's basename without .git
DirName == "repo"
Url == "https://host/repo.git"

\* clone_bare_for_worktrees: fs::create_dir(dir_name)
CloneCreateDir ==
    /\ pc = "clone_mkdir"
    /\ \E r \in {"ok", "exists", "error"} :
         /\ log' = Append(log, FsEv(<<"create_dir", DirName>>, r))
         /\ IF r = "ok"
            THEN /\ disk' = disk \cup {DirName}
                 /\ stderr' = Append(stderr, "Cloning " \o Url \o " into " \o DirName \o "/")
                 /\ pc' = "clone_bare"
                 /\ UNCHANGED <<exitCode, failure>>
            ELSE /\ stderr' = Append(stderr,
                       " ERROR  Failed to create directory '" \o DirName \o "'")
                 /\ Exit(1, IF r = "exists" THEN "PathExists" ELSE "Error")
                 /\ UNCHANGED disk
    /\ UNCHANGED <<args, env, branch, findLocals, addLocals, stdout>>

\* a bug: the status of the bare clone is not looked at
CloneBareIgnoresFailure ==
    /\ pc = "clone_bare"
    /\ \E r \in GitOutcomes :
         /\ log' = Append(log, GitEv(<<"clone", "--bare", Url, ".bare">>, DirName, r))
         /\ disk' = IF r = "ok" THEN disk \cup {DirName \o "/.bare"} ELSE disk
    /\ pc' = "clone_gitfile"
    /\ UNCHANGED <<args, env, branch, findLocals, addLocals, stdout, stderr,
                   exitCode, failure>>

\* clone_bare_for_worktrees: git clone --bare <url> .bare, in the new directory
CloneBare ==
    /\ pc = "clone_bare"
    /\ \E r \in GitOutcomes :
         /\ RunCommand(<<"clone", "--bare", Url, ".bare">>, DirName, r, <<>>, <<>>,
                       pc' = "clone_gitfile" /\ UNCHANGED <<exitCode, failure>>)
         /\ disk' = IF r = "ok" THEN disk \cup {DirName \o "/.bare"} ELSE disk
    /\ UNCHANGED <<args, env, branch, findLocals, addLocals, stdout>>

\* clone_bare_for_worktrees: write the .git file pointing to .bare
CloneWriteGitFile ==
    /\ pc = "clone_gitfile"
    /\ \E r \in {"ok", "error"} :
         /\ log' = Append(log, FsEv(<<"write", DirName \o "/.git", "gitdir: ./.bare">>, r))
         /\ IF r = "ok"
            THEN /\ disk' = disk \cup {DirName \o "/.git"}
                 /\ pc' = "clone_config"
                 /\ UNCHANGED <<stderr, exitCode, failure>>
            ELSE /\ stderr' = Append(stderr, "Error: Failed to create .git file")
                 /\ ReturnErr
                 /\ UNCHANGED disk
    /\ UNCHANGED <<args, env, branch, findLocals, addLocals, stdout>>

\* clone_bare_for_worktrees: configure remote origin fetch
CloneConfig ==
    /\ pc = "clone_config"
    /\ \E r \in GitOutcomes :
         RunCommand(<<"config", "remote.origin.fetch",
                      "+refs/heads/*:refs/remotes/origin/*">>, DirName, r, <<>>, <<>>,
                    pc' = "clone_fetch" /\ UNCHANGED <<exitCode, failure>>)
    /\ UNCHANGED <<args, env, branch, findLocals, addLocals, disk, stdout>>

\* clone_bare_for_worktrees: fetch all branches, and return
CloneFetch ==
    /\ pc = "clone_fetch"
    /\ \E r \in GitOutcomes :
         RunCommand(<<"fetch", "origin">>, DirName, r, <<"Fetching branches...">>,
                    <<"Repository cloned successfully.">>, ReturnOk)
    /\ UNCHANGED <<args, env, branch, findLocals, addLocals, disk, stdout>>

-----------------------------------------------------------------------------
(* The run *)

Next ==
    \/ PrintHelp
    \/ InitShellIntegration
    \/ CheckGitRepo
    \/ FetchWithPrune
    \/ GetWorktreeRoot
    \/ AddPathCheck
    \/ AddProbeBranch
    \/ AddProbeBaseRef
    \/ AddCreate
    \/ FindWorktreePath
    \/ FuzzyPass
    \/ SelectPrompt
    \/ GetCurrentWorktreeBranch
    \/ SwitchToWorktree
    \/ RemoveConfirm
    \/ RemoveWorktree
    \/ PullWorktree
    \/ CloneCreateDir
    \/ CloneBare
    \/ CloneWriteGitFile
    \/ CloneConfig
    \/ CloneFetch

Spec == Init /\ [][Next]_vars

TypeOK ==
    /\ cmd \in Commands
    /\ pc \in {"init", "help", "check_git_repo", "fetch", "get_root", "path_check",
               "probe_branch", "probe_base", "create", "find", "fuzzy", "select",
               "found", "current_branch", "remove", "clone_mkdir", "clone_bare",
               "clone_gitfile", "clone_config", "clone_fetch", "exit"}
    /\ (pc = "exit") = IsSome(exitCode)

-----------------------------------------------------------------------------
(* Reading the trace *)

IsGit(e) == e.kind = "git"
IsWorktreeAdd(e) == IsGit(e) /\ e.argv[1] = "worktree" /\ e.argv[2] = "add"
IsWorktreeRemove(e) == IsGit(e) /\ e.argv[1] = "worktree" /\ e.argv[2] = "remove"
IsWorktreeList(e) == IsGit(e) /\ e.argv[1] = "worktree" /\ e.argv[2] = "list"
IsPull(e) == IsGit(e) /\ e.argv[1] = "pull"
IsFetch(e) == IsGit(e) /\ e.argv[1] = "fetch"
IsPrompt(e) == e.kind \in {"confirm", "select"}

\* a git command that changes the repository or the filesystem
IsMutating(e) ==
    IsGit(e) /\ (\/ e.argv[1] \in {"fetch", "pull", "clone", "config"}
                 \/ IsWorktreeAdd(e)
                 \/ IsWorktreeRemove(e))

Exited == pc = "exit"
LastEv == log[Len(log)]

-----------------------------------------------------------------------------
(* C1: rm invokes `git worktree remove` only after the confirmation prompt *)
(* was shown and answered yes, with or without --force; a declined or      *)
(* cancelled prompt ends the run with exit code 0 and no removal.          *)

ConfirmedYes(e) == e.kind = "confirm" /\ e.res = "answered" /\ e.val = "yes"

C1_RemoveOnlyAfterYes ==
    cmd = "rm" =>
      /\ \A i \in 1..Len(log) :
           IsWorktreeRemove(log[i]) => \E j \in 1..(i - 1) : ConfirmedYes(log[j])
      /\ \A j \in 1..Len(log) :
           (log[j].kind = "confirm" /\ ~ConfirmedYes(log[j])) =>
              /\ Exited
              /\ exitCode = Some(0)
              /\ \A i \in 1..Len(log) : ~IsWorktreeRemove(log[i])

\* a forced removal that ran, after the prompt was answered yes
C1_Witness ==
    /\ cmd = "rm"
    /\ force
    /\ Exited
    /\ exitCode = Some(0)
    /\ IsWorktreeRemove(LastEv)
    /\ LastEv.res = "ok"
    /\ ConfirmedYes(log[Len(log) - 1])

-----------------------------------------------------------------------------
(* C2: when the inventory holds a record whose branch equals the token,    *)
(* find_worktree_path returns the path of the first such record, without   *)
(* fuzzy scoring and without the select prompt.                            *)

\* find_worktree_path has queried the inventory, and the query succeeded
FindQueried ==
    /\ pc \in {"fuzzy", "select", "found"}
    /\ \E i \in 1..Len(log) :
         /\ IsWorktreeList(log[i])
         /\ log[i].res = "ok"
         /\ \A k \in (i + 1)..Len(log) : ~IsWorktreeList(log[k])

HasExact == \E i \in 1..Len(repoWorktrees) : repoWorktrees[i].branch = branch

C2_ExactMatchWins ==
    (FindQueried /\ HasExact) =>
      /\ pc = "found"
      /\ \E i \in 1..Len(repoWorktrees) :
           /\ repoWorktrees[i].branch = branch
           /\ \A k \in 1..(i - 1) : repoWorktrees[k].branch # branch
           /\ found = Some(repoWorktrees[i].path)
      /\ \A i \in 1..Len(log) : log[i].kind \notin {"score", "select"}

\* two records carry the token's branch at different paths, the first is
\* not the first of the inventory, and another branch is present
C2_Witness ==
    /\ FindQueried
    /\ branch = "feat"
    /\ Len(repoWorktrees) = 3
    /\ repoWorktrees[1].branch = "fix"
    /\ repoWorktrees[2] = Rec("feat", "/gone")
    /\ repoWorktrees[3] = Rec("feat", "/r/feat")
    /\ found = Some("/gone")

-----------------------------------------------------------------------------
(* C3 (as claimed): a successful switch, add or clone writes exactly one   *)
(* line CD:<path> to standard output.                                      *)

Succeeded == Exited /\ failure = "none"

CdLines ==
    { "CD:" \o r.path : r \in Records }
      \cup { "CD:" \o WorktreePath(t) : t \in Tokens }
      \cup { "CD:" \o DirName }

C3_CdLineOnEverySuccess ==
    (Succeeded /\ cmd \in {"switch", "add", "clone"}) =>
       (Len(stdout) = 1 /\ stdout[1] \in CdLines)

(* C3 (amended): a successful switch writes exactly the line               *)
(* CD:<resolved path> to standard output; a successful add or clone writes *)
(* nothing to standard output itself.                                      *)
C3_CdLineOnSwitchOnly ==
    /\ (Succeeded /\ cmd = "switch") =>
          \E i \in 1..Len(repoWorktrees) :
             /\ stdout = << "CD:" \o repoWorktrees[i].path >>
             /\ found = Some(repoWorktrees[i].path)
    /\ (Succeeded /\ cmd \in {"add", "clone"}) => stdout = <<>>

C3_Witness ==
    /\ Succeeded
    /\ cmd = "switch"
    /\ stdout = << "CD:/r/feat" >>

-----------------------------------------------------------------------------
(* C4: add picks the base by a strict fallback chain over the two probes:  *)
(* the existing local branch, else a new branch from the base ref, else a  *)
(* new branch from HEAD with a note; exactly one `git worktree add` runs   *)
(* and the note is emitted only in the HEAD case.                          *)

\* add passed its preconditions and made both probes
AddProbed ==
    /\ cmd = "add"
    /\ Exited
    /\ \E i \in 1..Len(log) : log[i].kind = "fs" /\ log[i].res = "no"

ProbeOk(ref) ==
    \E i \in 1..Len(log) :
       /\ IsGit(log[i])
       /\ log[i].argv = <<"rev-parse", "--verify", ref>>
       /\ log[i].res = "ok"

HeadNote(ref) == "Note: " \o ref \o " doesn't exist, creating from HEAD"

Notes == { stderr[i] : i \in 1..Len(stderr) } \cap
           { HeadNote(r) : r \in Refs \cup { "origin/" \o t : t \in Tokens } }

C4_AddFallbackChain ==
    AddProbed =>
      LET b == Unwrap(branchArg)
          path == "/r/" \o b
          base == IF fromArg = None THEN "origin/" \o b ELSE Unwrap(fromArg)
          local == ProbeOk("refs/heads/" \o b)
          remote == ProbeOk(base)
          adds == SelectSeq(log, IsWorktreeAdd)
      IN  /\ Len(adds) = 1
          /\ local => adds[1].argv = <<"worktree", "add", path, b>>
          /\ (~local /\ remote) =>
                adds[1].argv = <<"worktree", "add", path, "-b", b, base>>
          /\ (~local /\ ~remote) =>
                adds[1].argv = <<"worktree", "add", path, "-b", b, "HEAD">>
          /\ Notes = (IF ~local /\ ~remote THEN { HeadNote(base) } ELSE {})

\* neither the local branch nor the --from ref exists: HEAD, with the note
C4_Witness ==
    /\ AddProbed
    /\ fromArg = Some("v1")
    /\ ~ProbeOk("refs/heads/" \o branch)
    /\ ~ProbeOk("v1")
    /\ Succeeded
    /\ LastEv.argv = <<"worktree", "add", "/r/" \o branch, "-b", branch, "HEAD">>
    /\ Notes = { HeadNote("v1") }

-----------------------------------------------------------------------------
(* C5 (as claimed): fetch, add, rm, switch and pull validate that they run *)
(* inside a repository before anything else: the first thing any of them   *)
(* does is `git rev-parse --git-dir`.                                      *)

C5_RepoCheckedFirst ==
    (cmd \in {"fetch", "add", "rm", "switch", "pull"} /\ log # <<>>) =>
       log[1] \in { GitEv(<<"rev-parse", "--git-dir">>, "", r) : r \in GitOutcomes }

-----------------------------------------------------------------------------
(* C6 (as claimed): every terminating run ends with exit code 0 or 1; 0    *)
(* exactly when the operation succeeded or the user cancelled a prompt, 1  *)
(* for every error, a failed prompt included.                              *)

\* the operation's own effect took place
OpDone ==
    CASE cmd \in {"init", "switch"} -> stdout # <<>>
      [] cmd = "help"   -> FALSE
      [] cmd = "clone"  -> Len(log) = 5 /\ IsFetch(LastEv) /\ LastEv.res = "ok"
      [] cmd = "fetch"  -> log # <<>> /\ IsFetch(LastEv) /\ LastEv.res = "ok"
      [] cmd = "add"    -> log # <<>> /\ IsWorktreeAdd(LastEv) /\ LastEv.res = "ok"
      [] cmd = "rm"     -> log # <<>> /\ IsWorktreeRemove(LastEv) /\ LastEv.res = "ok"
      [] cmd = "pull"   -> log # <<>> /\ IsPull(LastEv) /\ LastEv.res = "ok"

\* the run ended at a prompt the user skipped, or a confirmation declined
UserCancelled ==
    /\ log # <<>>
    /\ IsPrompt(LastEv)
    /\ \/ LastEv.res = "skipped"
       \/ LastEv.kind = "confirm" /\ LastEv.res = "answered" /\ LastEv.val = "no"

\* the run ended at a prompt that itself failed
PromptFailed == log # <<>> /\ IsPrompt(LastEv) /\ LastEv.res = "error"

C6_ExitCodes ==
    Exited =>
      /\ exitCode \in {Some(0), Some(1)}
      /\ (exitCode = Some(0)) <=> (OpDone \/ UserCancelled)

(* C6 (amended): every terminating run ends with exit code 0 or 1; 0       *)
(* exactly when the operation succeeded or a prompt was declined, was      *)
(* cancelled or failed; 1 for every other error.                           *)
C6_ExitCodesPromptFailureIsZero ==
    Exited =>
      /\ exitCode \in {Some(0), Some(1)}
      /\ (exitCode = Some(0)) <=> (OpDone \/ UserCancelled \/ PromptFailed)

\* a run that a failed select prompt ended with exit code 0
C6_Witness ==
    /\ Exited
    /\ PromptFailed
    /\ LastEv.kind = "select"
    /\ exitCode = Some(0)

-----------------------------------------------------------------------------
(* C7: for every operation except clone, a run that ends with              *)
(* NotInRepository, PathExists or ResolveNotFound has invoked no git       *)
(* command that changes the repository or the filesystem.                  *)

-----------------------------------------------------------------------------
(* C8: with two or more fuzzy candidates the list presented is sorted by   *)
(* descending score, candidates of equal score keep their inventory order, *)
(* and the path returned is that of the first presented candidate whose    *)
(* branch equals the selected label.                                       *)

\* the positions in the inventory of the records the matcher kept
MatchedAt ==
    { k \in 1..Len(worktrees) :
        \E i \in 1..Len(options) : options[i].branch = worktrees[k].branch }

\* options is the matched records, each once, ties in inventory order
PresentedStably ==
    \E f \in [1..Len(options) -> 1..Len(worktrees)] :
       /\ { f[i] : i \in 1..Len(options) } = MatchedAt
       /\ \A i, j \in 1..Len(options) :
            i < j =>
              /\ f[i] # f[j]
              /\ options[i].score >= options[j].score
              /\ options[i].score = options[j].score => f[i] < f[j]
       /\ \A i \in 1..Len(options) :
            /\ options[i].branch = worktrees[f[i]].branch
            /\ options[i].path = worktrees[f[i]].path

SelectAnswered ==
    /\ pc = "found"
    /\ log # <<>>
    /\ LastEv.kind = "select"
    /\ LastEv.res = "answered"

C8_StableDescendingOrder ==
    /\ pc = "select" =>
          /\ Len(options) >= 2
          /\ PresentedStably
          /\ \A i \in 1..Len(options) :
                \A j \in 1..Len(options) :
                   options[i].branch = options[j].branch =>
                      options[i].score = options[j].score
    /\ SelectAnswered =>
          /\ LastEv.argv = [i \in 1..Len(options) |-> options[i].branch]
          /\ \E i \in 1..Len(options) :
                /\ options[i].branch = LastEv.val
                /\ \A k \in 1..(i - 1) : options[k].branch # LastEv.val
                /\ found = Some(options[i].path)

\* two candidates of different branches tie below a better one that comes
\* last in the inventory, and the user picks the second of the tie
C8_Witness ==
    /\ SelectAnswered
    /\ Len(options) = 3
    /\ worktrees = << Rec("fix", "/lnk"), Rec("main", "/r/main"), Rec("feat", "/r/feat") >>
    /\ options[1].branch = "feat"
    /\ options[2].score = options[3].score
    /\ options[2].branch = "fix"
    /\ LastEv.val = "main"
    /\ found = Some("/r/main")

-----------------------------------------------------------------------------
(* C9: rm and pull without a branch take the branch of the first inventory *)
(* record whose canonical path equals the canonical current directory; a   *)
(* directory that is only above or below a worktree matches nothing, and   *)
(* the run then ends with exit code 1 without resolving, prompting,        *)
(* removing or pulling.                                                    *)

\* get_current_worktree_branch has run and its inventory query was spawned
CurrentBranchAsked ==
    /\ cmd \in {"rm", "pull"}
    /\ branchArg = None
    /\ Len(log) >= 3
    /\ log[3].res # "spawn"

C9_CurrentBranchByExactPath ==
    CurrentBranchAsked =>
      LET wts == IF log[3].res = "ok" THEN repoWorktrees ELSE <<>>
          here == { i \in 1..Len(wts) : Canonicalize(wts[i].path) = Canonicalize(cwd) }
      IN  IF here = {}
          THEN /\ Exited
               /\ exitCode = Some(1)
               /\ Len(log) = 3
          ELSE \E i \in here :
                 /\ \A k \in here : i <= k
                 /\ branch = wts[i].branch

\* the current directory is inside one worktree and above another, and is
\* itself no worktree
C9_Witness ==
    /\ CurrentBranchAsked
    /\ log[3].res = "ok"
    /\ cwd = "/r/feat"
    /\ repoWorktrees = << Rec("fix", "/r/feat/sub"), Rec("main", "/r/main") >>
    /\ Exited
    /\ exitCode = Some(1)

\* the second record is the first whose canonical path is the current one
C9_WitnessFirstRecord ==
    /\ CurrentBranchAsked
    /\ cwd = "/r/feat"
    /\ repoWorktrees = << Rec("main", "/r/main"), Rec("fix", "/lnk"), Rec("feat", "/r/feat") >>
    /\ branch = "fix"
    /\ pc = "found"

-----------------------------------------------------------------------------
(* C10: clone runs create-directory, bare clone, write .git, configure the *)
(* refspec, fetch, in that order; an existing target means no git command; *)
(* a failed step is the last step, ends the run as an error, and leaves on *)
(* disk what the earlier steps created.                                    *)

CloneSteps ==
    << [kind |-> "fs",  argv |-> <<"create_dir", "repo">>, cwd |-> ""],
       [kind |-> "git", argv |-> <<"clone", "--bare", Url, ".bare">>, cwd |-> "repo"],
       [kind |-> "fs",  argv |-> <<"write", "repo/.git", "gitdir: ./.bare">>, cwd |-> ""],
       [kind |-> "git", argv |-> <<"config", "remote.origin.fetch",
                                   "+refs/heads/*:refs/remotes/origin/*">>, cwd |-> "repo"],
       [kind |-> "git", argv |-> <<"fetch", "origin">>, cwd |-> "repo"] >>

\* what each step leaves on disk when it succeeds
CloneArtifacts == << {"repo"}, {"repo/.bare"}, {"repo/.git"}, {}, {} >>

C10_CloneStepOrder ==
    cmd = "clone" =>
      /\ Len(log) <= Len(CloneSteps)
      /\ \A i \in 1..Len(log) :
           /\ [kind |-> log[i].kind, argv |-> log[i].argv, cwd |-> log[i].cwd]
                 = CloneSteps[i]
           /\ i < Len(log) => log[i].res = "ok"
      /\ (log # <<>> /\ LastEv.res # "ok") =>
           /\ Exited
           /\ exitCode = Some(1)
      /\ disk = UNION { CloneArtifacts[i] : i \in { k \in 1..Len(log) : log[k].res = "ok" } }
      /\ (Exited /\ exitCode = Some(0)) => Len(log) = Len(CloneSteps)

\* the fetch failed after everything else was created, and it all stays
C10_Witness ==
    /\ cmd = "clone"
    /\ Exited
    /\ exitCode = Some(1)
    /\ Len(log) = 5
    /\ LastEv.res = "fail"
    /\ disk = {"repo", "repo/.bare", "repo/.git"}

====
